---- MODULE Spec2Model ----
(***************************************************************************)
(* The MDict readers of rdict/src-tauri/src/mdict.rs: MdxDictionary        *)
(* (lookup, prefix_search) and MddResource (locate), with their LRU caches.*)
(* After them, the command handlers of main.rs over AppState, with         *)
(* AppConfig::update_dictionary_path of config.rs.                         *)
(*                                                                         *)
(* Text is a sequence of character codes, a file is a sequence of bytes    *)
(* (0..255).  Positions are 0-based as in the source; SubSeq is 1-based.   *)
(* A Result<T> is Ok(v) or Err, an Option<T> is Some(v) or None.           *)
(***************************************************************************)
EXTENDS Integers, Sequences, FiniteSets, TLC

VARIABLES
    kind,                \* "mdx": the reader is an MdxDictionary; "mdd": an MddResource
    file_path,           \* Self.file_path
    file,                \* the bytes of the file at file_path
    header,              \* Self.header (the fields the readers use)
    key_block_infos,     \* Self.key_block_infos
    record_block_infos,  \* Self.record_block_infos
    key_cache,           \* MdxDictionary.key_cache, most recently used first
    resource_cache,      \* MddResource.resource_cache, most recently used first
    pc,                  \* per thread: "idle", or where the call in progress is
    arg,                 \* per thread: the argument of the call in progress
    last,                \* the call that returned most recently, with its result
    mutex,               \* the thread holding the Mutex of the cache, 0 when it is free
    handles,             \* the open Files, each [fd, pos]
    frame,               \* per thread: the local variables of the call in progress
    uses,                \* history: the cached keys by their latest hit or insert, latest first
    state,               \* main.rs AppState: config, dictionary, mdd, css_content
    guards,              \* per Mutex of AppState: the thread holding its guard, 0 when free
    handler              \* per thread: the command handler in progress and where it is

vars == <<kind, file_path, file, header, key_block_infos, record_block_infos,
          key_cache, resource_cache, pc, arg, last, mutex, handles, frame, uses,
          state, guards, handler>>

Ok(v) == [ok |-> TRUE, panic |-> FALSE, val |-> v]
Err == [ok |-> FALSE, panic |-> FALSE]
Panic == [ok |-> FALSE, panic |-> TRUE]     \* an out-of-range index or slice: the thread aborts
Some(v) == [some |-> TRUE, val |-> v]
None == [some |-> FALSE]

(***************************************************************************)
(* Text and byte helpers                                                   *)
(***************************************************************************)

\* str::to_lowercase on the ASCII range
ToLowercase(s) == [i \in 1..Len(s) |-> IF s[i] >= 65 /\ s[i] <= 90 THEN s[i] + 32 ELSE s[i]]

IsWhitespace(c) == c \in {9, 10, 11, 12, 13, 32}

RECURSIVE TrimStart(_)
TrimStart(s) == IF s # <<>> /\ IsWhitespace(Head(s)) THEN TrimStart(Tail(s)) ELSE s

RECURSIVE TrimEnd(_)
TrimEnd(s) ==
    IF s # <<>> /\ IsWhitespace(s[Len(s)]) THEN TrimEnd(SubSeq(s, 1, Len(s) - 1)) ELSE s

\* str::trim
Trim(s) == TrimEnd(TrimStart(s))

\* String ordering: byte-wise lexicographic, a <= b
RECURSIVE StrLeq(_, _)
StrLeq(a, b) ==
    IF a = <<>> THEN TRUE
    ELSE IF b = <<>> THEN FALSE
    ELSE IF Head(a) < Head(b) THEN TRUE
    ELSE IF Head(a) > Head(b) THEN FALSE
    ELSE StrLeq(Tail(a), Tail(b))

\* str::starts_with
StartsWith(s, p) == Len(p) <= Len(s) /\ SubSeq(s, 1, Len(p)) = p

\* String::from_utf8_lossy on single bytes: an ASCII byte is itself, any
\* other byte is not valid UTF-8 on its own and becomes U+FFFD
FromUtf8Lossy(bytes) == [i \in 1..Len(bytes) |-> IF bytes[i] < 128 THEN bytes[i] ELSE 65533]

\* ReadBytesExt::read_u64::<BigEndian> of the 8 bytes at position pos
RECURSIVE BigEndian(_, _, _)
BigEndian(data, pos, n) ==
    IF n = 0 THEN 0 ELSE BigEndian(data, pos, n - 1) * 256 + data[pos + n]

\* The sum of f over 1..n
RECURSIVE SumTo(_, _)
SumTo(f, n) == IF n = 0 THEN 0 ELSE SumTo(f, n - 1) + f[n]

\* The concatenation of the sequences ss[lo..hi]
RECURSIVE FlattenRange(_, _, _)
FlattenRange(ss, lo, hi) ==
    IF lo > hi THEN <<>>
    ELSE IF lo = hi THEN ss[lo]
    ELSE LET mid == (lo + hi) \div 2
         IN  FlattenRange(ss, lo, mid) \o FlattenRange(ss, mid + 1, hi)

Flatten(ss) == FlattenRange(ss, 1, Len(ss))

(***************************************************************************)
(* The files on disk.  A file is written here the way read_block_infos and *)
(* the readers below take it apart: [4-byte header length][header text]    *)
(* [4-byte checksum], then at data_offset the key-info counters, the       *)
(* key-info block, the record-info counters and the record info, then the  *)
(* key blocks and the record blocks.  The readers position key block i at  *)
(* data_offset + the compressed sizes of the key blocks before it, so the  *)
(* first key-info entry of these files describes the index section itself  *)
(* (no entries), and the blocks that carry keys follow it.                 *)
(***************************************************************************)

U16Bytes(n) == <<(n \div 256) % 256, n % 256>>

U64Bytes(n) ==
    <<0, 0, 0, 0, (n \div 16777216) % 256, (n \div 65536) % 256, (n \div 256) % 256, n % 256>>

\* One key entry as read_key_entry and the read_u64 after it consume it
KeyEntryBytes(e) == U16Bytes(Len(e.key)) \o e.key \o U64Bytes(e.offset)

\* One key of the key info as read_key consumes it (length, bytes, 8 skipped bytes)
InfoKeyBytes(k) == U16Bytes(Len(k)) \o k \o U64Bytes(0)

\* Adler-32 of data, as its four big-endian bytes
RECURSIVE AdlerA(_, _)
AdlerA(data, n) == IF n = 0 THEN 1 ELSE (AdlerA(data, n - 1) + data[n]) % 65521

RECURSIVE AdlerB(_, _)
AdlerB(data, n) == IF n = 0 THEN 0 ELSE (AdlerB(data, n - 1) + AdlerA(data, n)) % 65521

Adler32Bytes(data) ==
    U16Bytes(AdlerB(data, Len(data))) \o U16Bytes(AdlerA(data, Len(data)))

\* A zlib stream holding data in one final stored block:
\* CMF FLG | BFINAL/BTYPE=00 | LEN | NLEN (little-endian) | data | Adler-32
ZlibStored(data) ==
    <<120, 1, 1, Len(data) % 256, Len(data) \div 256,
      255 - (Len(data) % 256), 255 - (Len(data) \div 256)>> \o data \o Adler32Bytes(data)

\* An LZO1X stream holding data (1 to 3 bytes) as one run of literals:
\* 17 + length | data | end marker 17 0 0
LzoLiterals(data) == <<17 + Len(data)>> \o data \o <<17, 0, 0>>

\* A block as stored: 4 bytes whose last one is the compression type the
\* readers look at, then the payload for that type
BlockBytes(tag, data) ==
    <<0, 0, 0, tag>> \o (CASE tag = 2 -> ZlibStored(data)
                           [] tag = 1 -> LzoLiterals(data)
                           [] OTHER -> data)

KeyBlockData(kb) == Flatten([i \in 1..Len(kb.entries) |-> KeyEntryBytes(kb.entries[i])])

KeyBlockBytes(kb) == BlockBytes(kb.tag, KeyBlockData(kb))

RecordBlockBytes(rb) ==
    LET good == BlockBytes(rb.tag, rb.data)
    IN  IF rb.flip = 0 THEN good
        ELSE [good EXCEPT ![rb.flip] = (good[rb.flip] + 1) % 256]

KeyInfoEntryBytes(csize, dsize, n, first, last_) ==
    U64Bytes(csize) \o U64Bytes(dsize) \o U64Bytes(n) \o InfoKeyBytes(first) \o InfoKeyBytes(last_)

\* The index section of a file described by d, whose first key-info entry
\* declares index_size compressed bytes and no entries
IndexSection(d, index_size) ==
    LET nk == Len(d.key_blocks)
        nr == Len(d.record_blocks)
        key_info == BlockBytes(0,
            KeyInfoEntryBytes(index_size, index_size - 4, 0, <<>>, <<>>)
            \o Flatten([i \in 1..nk |->
                 KeyInfoEntryBytes(Len(KeyBlockBytes(d.key_blocks[i])),
                                   Len(KeyBlockData(d.key_blocks[i])),
                                   d.key_blocks[i].num_entries,
                                   d.key_blocks[i].first_key,
                                   d.key_blocks[i].last_key)]))
        record_info == Flatten([i \in 1..nr |->
                 U64Bytes(Len(RecordBlockBytes(d.record_blocks[i])))
                 \o U64Bytes(Len(d.record_blocks[i].data))])
        entries == SumTo([i \in 1..nk |-> d.key_blocks[i].num_entries], nk)
    IN  U64Bytes(nk + 1) \o U64Bytes(entries)
        \o U64Bytes(Len(key_info) - 4) \o <<0, 0, 0, 0, 0>>
        \o U64Bytes(Len(key_info)) \o U64Bytes(0)
        \o key_info
        \o U64Bytes(nr) \o U64Bytes(entries) \o U64Bytes(Len(record_info)) \o U64Bytes(0)
        \o record_info

\* The whole file: a header of two bytes of text, the index, the blocks
FileOf(d) ==
    <<0, 0, 0, 2, 60, 62, 0, 0, 0, 0>>
    \o IndexSection(d, Len(IndexSection(d, 0)))
    \o Flatten([i \in 1..Len(d.key_blocks) |-> KeyBlockBytes(d.key_blocks[i])])
    \o Flatten([i \in 1..Len(d.record_blocks) |-> RecordBlockBytes(d.record_blocks[i])])

(***************************************************************************)
(* The descriptions of the files of the model                              *)
(***************************************************************************)

NumFillers == 100

\* "z00", "z01", ...: the filler keys of big.mdx
Filler(i) == <<122, 48 + (i \div 10), 48 + (i % 10)>>

\* keys "b" -> [0,2), "b-c" -> [2,5) | "n" -> [5,6), "p" -> [6,7)
SmallKeyBlocks ==
    << [entries |-> << [key |-> <<98>>, offset |-> 0], [key |-> <<98, 45, 99>>, offset |-> 2] >>,
        num_entries |-> 2, first_key |-> <<98>>, last_key |-> <<98, 45, 99>>, tag |-> 0],
       [entries |-> << [key |-> <<110>>, offset |-> 5], [key |-> <<112>>, offset |-> 6] >>,
        num_entries |-> 2, first_key |-> <<110>>, last_key |-> <<112>>, tag |-> 2] >>

SmallRecordBlocks(flip) ==
    << [data |-> <<101, 102, 103, 104, 105>>, tag |-> 0, flip |-> 0],
       [data |-> <<200, 107>>, tag |-> 2, flip |-> flip] >>

SmallMdx == [key_blocks |-> SmallKeyBlocks, record_blocks |-> SmallRecordBlocks(0)]

\* the same file with one byte of the payload of its zlib record block changed
CorruptMdx == [key_blocks |-> SmallKeyBlocks, record_blocks |-> SmallRecordBlocks(12)]

\* the same file with its second record block compressed with LZO
LzoMdx ==
    [key_blocks |-> SmallKeyBlocks,
     record_blocks |-> << SmallRecordBlocks(0)[1], [data |-> <<200, 107>>, tag |-> 1, flip |-> 0] >>]

\* the same records split 4 + 3, the LZO block holding the last three bytes
LzoSplitMdx ==
    [key_blocks |-> SmallKeyBlocks,
     record_blocks |-> << [data |-> <<101, 102, 103, 104>>, tag |-> 0, flip |-> 0],
                          [data |-> <<105, 200, 107>>, tag |-> 1, flip |-> 0] >>]

\* The i-th key block of fillers (i from 0): ten entries, fewer in the last
FillerBlock(i) ==
    LET n == IF NumFillers - 10 * i < 10 THEN NumFillers - 10 * i ELSE 10
    IN  [entries |-> [j \in 1..n |-> [key |-> Filler(10 * i + j - 1), offset |-> 6 + 10 * i + j]],
         num_entries |-> n, first_key |-> Filler(10 * i), last_key |-> Filler(10 * i + n - 1),
         tag |-> 0]

\* the small file plus NumFillers one-byte entries in key blocks of ten
BigMdx ==
    [key_blocks |-> SmallKeyBlocks \o [i \in 1..((NumFillers + 9) \div 10) |-> FillerBlock(i - 1)],
     record_blocks |-> SmallRecordBlocks(0) \o
        << [data |-> [i \in 1..NumFillers |-> 48 + (i % 10)], tag |-> 0, flip |-> 0] >>]

\* names "/x" -> [0,2), "/y" -> [2,3) | "/z" -> [3,4)
ResMdd ==
    [key_blocks |->
        << [entries |-> << [key |-> <<47, 120>>, offset |-> 0], [key |-> <<47, 121>>, offset |-> 2] >>,
            num_entries |-> 2, first_key |-> <<47, 120>>, last_key |-> <<47, 121>>, tag |-> 0],
           [entries |-> << [key |-> <<47, 122>>, offset |-> 3] >>,
            num_entries |-> 1, first_key |-> <<47, 122>>, last_key |-> <<47, 122>>, tag |-> 2] >>,
     record_blocks |-> << [data |-> <<201, 202, 203, 204>>, tag |-> 2, flip |-> 0] >>]

SmallMdxBytes == FileOf(SmallMdx)
CorruptMdxBytes == FileOf(CorruptMdx)
LzoMdxBytes == FileOf(LzoMdx)
LzoSplitMdxBytes == FileOf(LzoSplitMdx)
BigMdxBytes == FileOf(BigMdx)
ResMddBytes == FileOf(ResMdd)

MdxPaths ==
    {"plain.mdx", "nocase.mdx", "strip.mdx", "stripnocase.mdx", "corrupt.mdx", "lzo.mdx", "lzosplit.mdx",
     "encrypted.mdx", "big.mdx"}
MddPaths == {"res.mdd"}

\* The description of the file at a path
FileDesc(path) ==
    CASE path = "corrupt.mdx" -> CorruptMdx
      [] path = "lzo.mdx" -> LzoMdx
      [] path = "lzosplit.mdx" -> LzoSplitMdx
      [] path = "big.mdx" -> BigMdx
      [] path = "res.mdd" -> ResMdd
      [] OTHER -> SmallMdx

\* The bytes of the file at a path
FileBytes(path) ==
    CASE path = "corrupt.mdx" -> CorruptMdxBytes
      [] path \in {"empty.mdx", "empty.mdd"} -> <<>>
      [] path = "lzo.mdx" -> LzoMdxBytes
      [] path = "lzosplit.mdx" -> LzoSplitMdxBytes
      [] path = "big.mdx" -> BigMdxBytes
      [] path = "res.mdd" -> ResMddBytes
      [] OTHER -> SmallMdxBytes

\* The attributes in the header text of the file at a path ("" when absent)
FileAttrs(path) ==
    [GeneratedByEngineVersion |-> "2.0",
     KeyCaseSensitive |-> IF path \in {"nocase.mdx", "stripnocase.mdx"} THEN "No" ELSE "Yes",
     StripKey |-> IF path \in {"strip.mdx", "stripnocase.mdx"} THEN "Yes" ELSE "No",
     Encryption |-> IF path = "encrypted.mdx" THEN "2" ELSE ""]

(***************************************************************************)
(* Cursors.  The source reads through a std::io::Cursor, or through the    *)
(* File, with `?` after every read: the first read that fails ends the     *)
(* function with Err.  A cursor is [ok, cur, got]: whether every read so   *)
(* far succeeded, the position, and the values read, in order.  A read on  *)
(* a failed cursor does nothing.                                           *)
(***************************************************************************)

Cursor(pos) == [ok |-> TRUE, cur |-> pos, got |-> <<>>]

Failed(c) == [c EXCEPT !.ok = FALSE]

\* cursor.read_u64::<BigEndian>()?
read_u64(data, c) ==
    IF ~c.ok THEN c
    ELSE IF c.cur + 8 <= Len(data)
         THEN [c EXCEPT !.cur = @ + 8, !.got = Append(@, BigEndian(data, c.cur, 8))]
         ELSE Failed(c)

\* cursor.read_exact(&mut buf)? with a buffer of n bytes
read_exact(data, c, n) ==
    IF ~c.ok THEN c
    ELSE IF c.cur + n <= Len(data)
         THEN [c EXCEPT !.cur = @ + n, !.got = Append(@, SubSeq(data, c.cur + 1, c.cur + n))]
         ELSE Failed(c)

\* read_exact into a buffer whose size is the i-th value read so far
ReadExactSized(data, c, i) == IF ~c.ok THEN c ELSE read_exact(data, c, c.got[i])

\* Values read and not kept (let _ = ...): the last n are dropped
Dropped(c, n) == IF ~c.ok THEN c ELSE [c EXCEPT !.got = SubSeq(@, 1, Len(@) - n)]

\* cursor.seek(SeekFrom::Current(n))?
SeekCurrent(c, n) == IF ~c.ok THEN c ELSE [c EXCEPT !.cur = @ + n]

(***************************************************************************)
(* Opening a reader: MdxDictionary::new / MddResource::new                 *)
(***************************************************************************)

\* file.seek(SeekFrom::Start(pos)) then file.read_exact of n bytes
ReadExact(bytes, pos, n) ==
    IF pos + n <= Len(bytes) THEN Ok(SubSeq(bytes, pos + 1, pos + n)) ELSE Err

\* ZlibDecoder::read_to_end on a stream whose deflate data is one final
\* stored block (the only kind the files of the model hold): the zlib header
\* check, LEN against NLEN, the data, and the Adler-32 check at the end
Inflate(z) ==
    IF Len(z) < 7 THEN Err
    ELSE LET len == z[4] + 256 * z[5]
         IN  IF /\ z[1] % 16 = 8
                /\ (z[1] * 256 + z[2]) % 31 = 0
                /\ (z[2] \div 32) % 2 = 0
                /\ z[3] = 1
                /\ z[6] = 255 - z[4] /\ z[7] = 255 - z[5]
                /\ Len(z) >= 7 + len + 4
                /\ SubSeq(z, 7 + len + 1, 7 + len + 4) = Adler32Bytes(SubSeq(z, 8, 7 + len))
             THEN Ok(SubSeq(z, 8, 7 + len))
             ELSE Err

\* The match on compression_type shared by both decompress functions
DecompressAs(compression_type, data_to_decompress) ==
    CASE compression_type = 0 -> Ok(data_to_decompress)
      [] compression_type = 1 -> Ok(<<>>)
      [] compression_type = 2 -> Inflate(data_to_decompress)
      [] OTHER -> Err

\* What decompress takes the compression type and the payload from:
\* data[header_size - 1] and data[header_size..] with a header, data[0] and
\* data without
DecompressFrom(data, header_size) ==
    IF header_size > 0
    THEN DecompressAs(data[header_size], SubSeq(data, header_size + 1, Len(data)))
    ELSE DecompressAs(data[1], data)

\* MdxDictionary::decompress(data, header_size), header_size 0 for None
MdxDictionary_decompress(data, header_size) ==
    IF data = <<>> THEN Ok(<<>>)
    ELSE IF header_size > 0 /\ Len(data) < header_size THEN Panic
    ELSE IF header_size > 0 /\ Len(data) <= header_size THEN Ok(<<>>)
    ELSE DecompressFrom(data, header_size)

\* MddResource::decompress(data, header_size)
MddResource_decompress(data, header_size) ==
    IF data = <<>> THEN Ok(<<>>)
    ELSE DecompressFrom(data, IF Len(data) > header_size THEN header_size ELSE 0)

\* Some(4) for a v2.x file, None (0) otherwise
HeaderSize(h) == IF h.version >= 20 THEN 4 ELSE 0

\* The length prefix of a key: u16 big-endian for v2.x, u8 otherwise
ReadKeyLen(data, cur, version) ==
    IF version >= 20
    THEN IF cur + 2 <= Len(data) THEN Ok([v |-> BigEndian(data, cur, 2), cur |-> cur + 2]) ELSE Err
    ELSE IF cur + 1 <= Len(data) THEN Ok([v |-> data[cur + 1], cur |-> cur + 1]) ELSE Err

\* The key bytes after the length prefix len, as text
KeyOfLen(data, c, len) ==
    IF ~len.ok THEN Failed(c)
    ELSE IF len.val.cur + len.val.v > Len(data) THEN Failed(c)
    ELSE [c EXCEPT !.cur = len.val.cur + len.val.v,
                   !.got = Append(@, FromUtf8Lossy(SubSeq(data, len.val.cur + 1,
                                                          len.val.cur + len.val.v)))]

\* read_key_entry: the key at the cursor
read_key_entry(data, c, version) ==
    IF ~c.ok THEN c ELSE KeyOfLen(data, c, ReadKeyLen(data, c.cur, version))

\* MdxDictionary::read_key: a key of the key info, and the 8 bytes skipped after it
read_key(data, c, version) == SeekCurrent(read_key_entry(data, c, version), 8)

\* The first loop of parse_key_block_info: five values for each block
RECURSIVE ParseKeyInfos(_, _, _, _)
ParseKeyInfos(data, c, num_blocks, version) ==
    IF num_blocks = 0 \/ ~c.ok THEN c
    ELSE ParseKeyInfos(data,
            read_key(data,
                read_key(data, read_u64(data, read_u64(data, read_u64(data, c))), version),
                version),
            num_blocks - 1, version)

\* The offsets parse_key_block_info and parse_record_block_info assign:
\* the sum of the compressed sizes of the blocks before
WithOffsets(infos) ==
    [i \in 1..Len(infos) |->
        [infos[i] EXCEPT !.offset = SumTo([j \in 1..Len(infos) |-> infos[j].compressed_size], i - 1)]]

\* infos.push(KeyBlockInfo { .. }) for each block, then the offsets
KeyBlockInfos(c, num_blocks) ==
    IF ~c.ok THEN Err
    ELSE Ok(WithOffsets([i \in 1..num_blocks |->
                [compressed_size |-> c.got[5 * i - 4], decompressed_size |-> c.got[5 * i - 3],
                 num_entries |-> c.got[5 * i - 2], first_key |-> c.got[5 * i - 1],
                 last_key |-> c.got[5 * i], offset |-> 0]]))

parse_key_block_info(data, num_blocks, h) ==
    KeyBlockInfos(ParseKeyInfos(data, Cursor(0), num_blocks, h.version), num_blocks)

\* The loop of parse_record_block_info: two values for each block
RECURSIVE ParseRecordInfos(_, _, _)
ParseRecordInfos(data, c, num_blocks) ==
    IF num_blocks = 0 \/ ~c.ok THEN c
    ELSE ParseRecordInfos(data, read_u64(data, read_u64(data, c)), num_blocks - 1)

\* infos.push(RecordBlockInfo { .. }) for each block
RecordBlockInfos(c, num_blocks) ==
    IF ~c.ok THEN Err
    ELSE Ok(WithOffsets([i \in 1..num_blocks |->
                [compressed_size |-> c.got[2 * i - 1], decompressed_size |-> c.got[2 * i],
                 offset |-> 0]]))

parse_record_block_info(data, num_blocks) ==
    RecordBlockInfos(ParseRecordInfos(data, Cursor(0), num_blocks), num_blocks)

\* f32 parse of GeneratedByEngineVersion, in tenths; 2.0 when it does not parse
ParseVersion(v) ==
    CASE v = "1.2" -> 12
      [] v = "2.0" -> 20
      [] OTHER -> 20

parse_header_attrs(attrs) ==
    [version |-> ParseVersion(attrs.GeneratedByEngineVersion),
     key_case_sensitive |-> (attrs.KeyCaseSensitive = "Yes"),
     strip_key |-> (attrs.StripKey = "Yes"),
     encryption |-> attrs.Encryption,
     data_offset |-> 0]

\* read_header: the header length, the attributes, data_offset
read_header(bytes, path) ==
    IF Len(bytes) < 4 THEN Err
    ELSE IF 4 + BigEndian(bytes, 0, 4) > Len(bytes) THEN Err
    ELSE Ok([parse_header_attrs(FileAttrs(path)) EXCEPT
                !.data_offset = BigEndian(bytes, 0, 4) + 4 + 4])

\* read_block_infos up to key_block_info_compressed.  got: num_key_blocks,
\* num_entries, key_block_info_size, _key_blocks_size, key_block_info_compressed
ReadKeyIndex(bytes, h) ==
    ReadExactSized(bytes,
        read_u64(bytes, read_u64(bytes,
            IF h.version >= 20
            THEN Dropped(read_exact(bytes,
                            read_u64(bytes,
                                read_u64(bytes, read_u64(bytes, Cursor(h.data_offset)))),
                            5), 2)
            ELSE read_u64(bytes, read_u64(bytes, Cursor(h.data_offset))))),
        3)

\* read_block_infos from num_record_blocks on.  got, after the five above:
\* num_record_blocks, _num_entries, record_block_info_size,
\* _record_blocks_size, record_block_info_data
ReadRecordIndex(bytes, c) ==
    ReadExactSized(bytes, read_u64(bytes, read_u64(bytes, read_u64(bytes, read_u64(bytes, c)))), 8)

\* Ok((key_block_infos, record_block_infos))
BlockInfos(key_infos, record_infos) ==
    IF ~record_infos.ok THEN Err
    ELSE Ok([key_block_infos |-> key_infos, record_block_infos |-> record_infos.val])

\* read_block_infos after the key infos are parsed
RecordIndexParsed(key_infos, c) ==
    IF ~c.ok THEN Err
    ELSE BlockInfos(key_infos, parse_record_block_info(c.got[10], c.got[6]))

RecordIndexRead(bytes, c, key_infos) ==
    IF ~key_infos.ok THEN Err
    ELSE RecordIndexParsed(key_infos.val, ReadRecordIndex(bytes, c))

\* read_block_infos after the key info is decompressed
KeyIndexParsed(bytes, h, c, key_block_info_data) ==
    IF ~key_block_info_data.ok THEN key_block_info_data
    ELSE RecordIndexRead(bytes, c, parse_key_block_info(key_block_info_data.val, c.got[1], h))

\* read_block_infos after key_block_info_compressed is read
KeyIndexRead(bytes, h, c) ==
    IF ~c.ok THEN Err
    ELSE KeyIndexParsed(bytes, h, c, MdxDictionary_decompress(c.got[5], HeaderSize(h)))

\* read_block_infos, reading on from data_offset
read_block_infos(bytes, h) == KeyIndexRead(bytes, h, ReadKeyIndex(bytes, h))

\* Ok(Self { file_path, header, key_block_infos, record_block_infos, .. })
Constructed(path, h, infos) ==
    IF ~infos.ok THEN infos
    ELSE Ok([file_path |-> path, header |-> h,
             key_block_infos |-> infos.val.key_block_infos,
             record_block_infos |-> infos.val.record_block_infos])

\* new after read_header
HeaderRead(path, bytes, h) ==
    IF ~h.ok THEN Err ELSE Constructed(path, h.val, read_block_infos(bytes, h.val))

\* new after File::open
Opened(path, bytes) == HeaderRead(path, bytes, read_header(bytes, path))

\* MdxDictionary::new and MddResource::new: the fields of the reader
new(path) == Opened(path, FileBytes(path))

(***************************************************************************)
(* The LRU cache (lru::LruCache), most recently used first                 *)
(***************************************************************************)

CACHE_SIZE == 100

LruKeys(cache) == {cache[i].key : i \in 1..Len(cache)}

LruIndex(cache, k) == CHOOSE i \in 1..Len(cache) : cache[i].key = k

\* The sequence without its i-th element
Without(cache, i) == SubSeq(cache, 1, i - 1) \o SubSeq(cache, i + 1, Len(cache))

\* LruValue with the bug of reading the head of the list instead of the
\* entry of the key
LruValueOfHead(cache, k) == cache[1].value

\* cache.get(k) on a hit: the value
LruValue(cache, k) == cache[LruIndex(cache, k)].value

\* LruTouch with the bug of leaving the entry where it is (a peek)
LruPeek(cache, k) == cache

\* cache.get(k) on a hit: the entry becomes the most recently used
LruTouch(cache, k) ==
    LET i == LruIndex(cache, k) IN <<cache[i]>> \o Without(cache, i)

\* LruPut with the bug of never dropping an entry
LruPutNoEvict(cache, k, v) ==
    IF k \in LruKeys(cache)
    THEN <<[key |-> k, value |-> v]>> \o Without(cache, LruIndex(cache, k))
    ELSE <<[key |-> k, value |-> v]>> \o cache

\* cache.put(k, v): replace and promote an entry that is there, else insert,
\* dropping the least recently used entry of a full cache
LruPut(cache, k, v) ==
    IF k \in LruKeys(cache)
    THEN <<[key |-> k, value |-> v]>> \o Without(cache, LruIndex(cache, k))
    ELSE IF Len(cache) >= CACHE_SIZE
         THEN <<[key |-> k, value |-> v]>> \o SubSeq(cache, 1, CACHE_SIZE - 1)
         ELSE <<[key |-> k, value |-> v]>> \o cache


(***************************************************************************)
(* Key search and record read                                              *)
(***************************************************************************)

\* Where search_in_key_block and read_key_block_entries seek for key block
\* block_idx (1-based here)
KeyDataOffset(block_idx) ==
    header.data_offset
    + SumTo([j \in 1..Len(key_block_infos) |-> key_block_infos[j].compressed_size], block_idx - 1)

\* MdxDictionary: decompress of a block read with read_exact
MdxDecompressed(compressed) ==
    IF ~compressed.ok THEN Err
    ELSE MdxDictionary_decompress(compressed.val, HeaderSize(header))

\* MddResource: decompress of a block read with read_exact
MddDecompressed(compressed) ==
    IF ~compressed.ok THEN Err
    ELSE MddResource_decompress(compressed.val, HeaderSize(header))

\* The key block block_idx as the readers seek, read and decompress it
KeyBlockCompressed(block_idx) ==
    ReadExact(file, KeyDataOffset(block_idx), key_block_infos[block_idx].compressed_size)

\* The loop over the entries of a decompressed key block, shared by both
\* search_in_key_block functions: Ok(Some(key, last_offset, size)) at the
\* first key equal to target, Ok(None) after num_entries entries, Err when
\* the cursor runs out of bytes.  SearchEntry is the body of the loop after
\* the key and the offset of one entry are read (e.got).
RECURSIVE SearchEntries(_, _, _, _, _)
RECURSIVE SearchEntry(_, _, _, _, _)
SearchEntry(data, e, remaining, last_offset, target) ==
    IF ~e.ok THEN Err
    ELSE IF e.got[1] = target
         THEN Ok(Some([word |-> e.got[1], offset |-> last_offset,
                       size |-> IF e.got[2] > last_offset THEN e.got[2] - last_offset ELSE 0]))
         ELSE SearchEntries(data, e.cur, remaining - 1, e.got[2], target)

SearchEntries(data, cur, remaining, last_offset, target) ==
    IF remaining = 0 THEN Ok(None)
    ELSE SearchEntry(data, read_u64(data, read_key_entry(data, Cursor(cur), header.version)),
                     remaining, last_offset, target)

\* search_in_key_block after the block is decompressed
SearchDecompressed(decompressed, num_entries, target) ==
    IF ~decompressed.ok THEN decompressed
    ELSE SearchEntries(decompressed.val, 0, num_entries, 0, target)

MdxDictionary_search_in_key_block(block_idx, target) ==
    SearchDecompressed(MdxDecompressed(KeyBlockCompressed(block_idx)),
                       key_block_infos[block_idx].num_entries, target)

MddResource_search_in_key_block(block_idx, target) ==
    SearchDecompressed(MddDecompressed(KeyBlockCompressed(block_idx)),
                       key_block_infos[block_idx].num_entries, target)

\* The record block whose range of logical offsets holds offset, 0 if none:
\* the loop over record_block_infos with its running current_offset
RECURSIVE FindRecordBlock(_, _, _)
FindRecordBlock(i, current_offset, offset) ==
    IF i > Len(record_block_infos) THEN 0
    ELSE IF offset >= current_offset
            /\ offset < current_offset + record_block_infos[i].decompressed_size
         THEN i
         ELSE FindRecordBlock(i + 1, current_offset + record_block_infos[i].decompressed_size,
                              offset)

\* The logical offset at which record block r starts: current_offset when
\* the loop reaches r
LogicalStart(r) ==
    SumTo([j \in 1..Len(record_block_infos) |-> record_block_infos[j].decompressed_size], r - 1)

\* key_block_infos.iter().map(|b| b.compressed_size).sum()
KeyBlocksSize ==
    SumTo([j \in 1..Len(key_block_infos) |-> key_block_infos[j].compressed_size],
          Len(key_block_infos))

\* TakeWhileSum with a filter that lets no block through
TakeWhileNone(j, r) == 0

\* record_block_infos.iter().take_while(|b| b.offset < block_info.offset)
\*     .map(|b| b.compressed_size).sum()
RECURSIVE TakeWhileSum(_, _)
TakeWhileSum(j, r) ==
    IF j <= Len(record_block_infos)
       /\ record_block_infos[j].offset < record_block_infos[r].offset
    THEN record_block_infos[j].compressed_size + TakeWhileSum(j + 1, r)
    ELSE 0

\* Where MdxDictionary::read_record seeks for record block r
MdxRecordDataStart(r) == header.data_offset + KeyBlocksSize + TakeWhileSum(1, r)

\* Where MddResource::read_record seeks for record block r
MddRecordDataStart(r) ==
    header.data_offset + KeyBlocksSize
    + SumTo([j \in 1..Len(record_block_infos) |-> record_block_infos[j].compressed_size], r - 1)

\* MdxDictionary::read_record: the slice of the decompressed block as text
MdxRecordSlice(decompressed, start, size) ==
    IF ~decompressed.ok THEN decompressed
    ELSE IF start + size <= Len(decompressed.val)
         THEN Ok(FromUtf8Lossy(SubSeq(decompressed.val, start + 1, start + size)))
    ELSE IF start > Len(decompressed.val) THEN Panic
    ELSE Ok(FromUtf8Lossy(SubSeq(decompressed.val, start + 1, Len(decompressed.val))))

\* MdxDictionary::read_record once the loop is at record block r (0: the
\* loop ended without a block)
MdxRecordIn(r, offset, size) ==
    IF r = 0 THEN Err
    ELSE MdxRecordSlice(
            MdxDecompressed(ReadExact(file, MdxRecordDataStart(r),
                                      record_block_infos[r].compressed_size)),
            offset - LogicalStart(r), size)

MdxDictionary_read_record(offset, size) == MdxRecordIn(FindRecordBlock(1, 0, offset), offset, size)

\* MddResource::read_record: decompressed[start..end] with end cut at the length
MddRecordSlice(decompressed, start, size) ==
    IF ~decompressed.ok THEN decompressed
    ELSE IF start + size < Len(decompressed.val)
         THEN Ok(SubSeq(decompressed.val, start + 1, start + size))
    ELSE IF start > Len(decompressed.val) THEN Panic
    ELSE Ok(SubSeq(decompressed.val, start + 1, Len(decompressed.val)))

MddRecordIn(r, offset, size) ==
    IF r = 0 THEN Err
    ELSE MddRecordSlice(
            MddDecompressed(ReadExact(file, MddRecordDataStart(r),
                                      record_block_infos[r].compressed_size)),
            offset - LogicalStart(r), size)

MddResource_read_record(offset, size) == MddRecordIn(FindRecordBlock(1, 0, offset), offset, size)

(***************************************************************************)
(* lookup, locate, prefix_search.  Beside its result a call yields the     *)
(* file reads it made, a sequence of [pos, len], and whether it panicked   *)
(* (a slice or index out of range).                                        *)
(***************************************************************************)

\* TargetWord with the bug of dropping the first character instead of
\* trimming white space
TargetWordDropFirst(word) ==
    IF header.strip_key
    THEN ToLowercase(IF word = <<>> THEN word ELSE Tail(word))
    ELSE word

\* lookup's target_word
TargetWord(word) == IF header.strip_key THEN ToLowercase(Trim(word)) ELSE word

\* The read made for record block r: none when r = 0
RecordReadAt(r, pos) ==
    IF r = 0 THEN <<>> ELSE << [pos |-> pos, len |-> record_block_infos[r].compressed_size] >>

\* The read MdxDictionary::read_record makes for a record at offset
MdxRecordRead(offset) ==
    RecordReadAt(FindRecordBlock(1, 0, offset), MdxRecordDataStart(FindRecordBlock(1, 0, offset)))

\* The read MddResource::read_record makes for a record at offset
MddRecordRead(offset) ==
    RecordReadAt(FindRecordBlock(1, 0, offset), MddRecordDataStart(FindRecordBlock(1, 0, offset)))

\* The read search_in_key_block and read_key_block_entries make
KeyBlockRead(block_idx) ==
    << [pos |-> KeyDataOffset(block_idx), len |-> key_block_infos[block_idx].compressed_size] >>

\* lookup after a cache miss: the loop over key_block_infos from block_idx
\* on.  entry is Some([word, definition]) or None.  LookupFound is the body
\* of the loop after search_in_key_block, LookupRecord after read_record.
RECURSIVE LookupInBlocks(_, _, _)
RECURSIVE LookupFound(_, _, _, _)
RECURSIVE LookupRecord(_, _, _, _, _)
LookupRecord(block_idx, target_word, reads, found_word, definition) ==
    IF definition.panic THEN [entry |-> None, panic |-> TRUE, reads |-> reads]
    ELSE IF ~definition.ok THEN LookupInBlocks(block_idx + 1, target_word, reads)
    ELSE [entry |-> Some([word |-> found_word, definition |-> definition.val]),
          panic |-> FALSE, reads |-> reads]

LookupFound(block_idx, target_word, reads, found) ==
    IF found.panic THEN [entry |-> None, panic |-> TRUE, reads |-> reads]
    ELSE IF ~found.ok \/ ~found.val.some
    THEN LookupInBlocks(block_idx + 1, target_word, reads)
    ELSE LookupRecord(block_idx, target_word, reads \o MdxRecordRead(found.val.val.offset),
                      found.val.val.word,
                      MdxDictionary_read_record(found.val.val.offset, found.val.val.size))

LookupInBlocks(block_idx, target_word, reads) ==
    IF block_idx > Len(key_block_infos)
    THEN [entry |-> None, panic |-> FALSE, reads |-> reads]
    ELSE IF ~(/\ StrLeq(key_block_infos[block_idx].first_key, target_word)
              /\ StrLeq(target_word, key_block_infos[block_idx].last_key))
    THEN LookupInBlocks(block_idx + 1, target_word, reads)
    ELSE LookupFound(block_idx, target_word, reads \o KeyBlockRead(block_idx),
                     MdxDictionary_search_in_key_block(block_idx, target_word))

\* ResourceName with the bug of leaving the name as given
ResourceNameAsGiven(resource_name) == resource_name

\* locate's name
ResourceName(resource_name) ==
    IF resource_name # <<>> /\ Head(resource_name) = 47
    THEN resource_name ELSE <<47>> \o resource_name

\* locate after a cache miss: the loop over key_block_infos.  LocateFound is
\* the body of the loop after search_in_key_block, LocateRecord after
\* read_record.
RECURSIVE LocateInBlocks(_, _, _)
RECURSIVE LocateFound(_, _, _, _)
RECURSIVE LocateRecord(_, _, _, _)
LocateRecord(block_idx, name, reads, data) ==
    IF data.panic THEN [data |-> None, panic |-> TRUE, reads |-> reads]
    ELSE IF ~data.ok THEN LocateInBlocks(block_idx + 1, name, reads)
    ELSE [data |-> Some(data.val), panic |-> FALSE, reads |-> reads]

LocateFound(block_idx, name, reads, found) ==
    IF found.panic THEN [data |-> None, panic |-> TRUE, reads |-> reads]
    ELSE IF ~found.ok \/ ~found.val.some
    THEN LocateInBlocks(block_idx + 1, name, reads)
    ELSE LocateRecord(block_idx, name, reads \o MddRecordRead(found.val.val.offset),
                      MddResource_read_record(found.val.val.offset, found.val.val.size))

LocateInBlocks(block_idx, name, reads) ==
    IF block_idx > Len(key_block_infos)
    THEN [data |-> None, panic |-> FALSE, reads |-> reads]
    ELSE LocateFound(block_idx, name, reads \o KeyBlockRead(block_idx),
                     MddResource_search_in_key_block(block_idx, name))

\* The loop of read_key_block_entries: a key and an offset for each entry
RECURSIVE ReadEntries(_, _, _)
ReadEntries(data, c, remaining) ==
    IF remaining = 0 \/ ~c.ok THEN c
    ELSE ReadEntries(data, read_u64(data, read_key_entry(data, c, header.version)),
                     remaining - 1)

\* The keys of the entries read, in order (prefix_search uses nothing else
\* of an entry)
EntryKeys(c, num_entries) ==
    IF ~c.ok THEN Err ELSE Ok([i \in 1..num_entries |-> c.got[2 * i - 1]])

\* read_key_block_entries after the block is decompressed
EntriesDecompressed(decompressed, num_entries) ==
    IF ~decompressed.ok THEN decompressed
    ELSE EntryKeys(ReadEntries(decompressed.val, Cursor(0), num_entries), num_entries)

read_key_block_entries(block_idx) ==
    EntriesDecompressed(MdxDecompressed(KeyBlockCompressed(block_idx)),
                        key_block_infos[block_idx].num_entries)

\* Matches with the bug of the operands of starts_with exchanged
MatchesExchanged(key, prefix_lower) == StartsWith(prefix_lower, ToLowercase(key))

\* The keys prefix_search keeps
Matches(key, prefix_lower) == StartsWith(ToLowercase(key), prefix_lower)

\* PushMatches with the bug of not looking at the number of results
RECURSIVE PushMatchesNoCap(_, _, _, _)
PushMatchesNoCap(keys, i, prefix_lower, results) ==
    IF i > Len(keys) THEN results
    ELSE PushMatchesNoCap(keys, i + 1, prefix_lower,
                          IF Matches(keys[i], prefix_lower) THEN Append(results, keys[i])
                          ELSE results)

\* The inner loop of prefix_search over the entries of one block
RECURSIVE PushMatches(_, _, _, _)
PushMatches(keys, i, prefix_lower, results) ==
    IF i > Len(keys) \/ Len(results) >= 20 THEN results
    ELSE PushMatches(keys, i + 1, prefix_lower,
                     IF Matches(keys[i], prefix_lower) THEN Append(results, keys[i])
                     ELSE results)

\* The outer loop of prefix_search over the key blocks.  PrefixEntries is
\* the body of the loop after read_key_block_entries.
RECURSIVE PrefixInBlocks(_, _, _, _)
RECURSIVE PrefixEntries(_, _, _, _, _)
PrefixEntries(block_idx, prefix_lower, results, reads, entries) ==
    IF entries.panic THEN [results |-> results, panic |-> TRUE, reads |-> reads]
    ELSE PrefixInBlocks(block_idx + 1, prefix_lower,
                        IF entries.ok THEN PushMatches(entries.val, 1, prefix_lower, results)
                        ELSE results,
                        reads)

PrefixInBlocks(block_idx, prefix_lower, results, reads) ==
    IF block_idx > Len(key_block_infos) \/ Len(results) >= 20
    THEN [results |-> results, panic |-> FALSE, reads |-> reads]
    ELSE PrefixEntries(block_idx, prefix_lower, results, reads \o KeyBlockRead(block_idx),
                       read_key_block_entries(block_idx))

prefix_search(prefix) == PrefixInBlocks(1, ToLowercase(prefix), <<>>, <<>>)

\* lookup from the search on: cache.put of what was found, and the return
LookupSearched(cache, r) ==
    [result |-> r.entry,
     cache |-> IF r.entry.some
               THEN LruPut(cache, r.entry.val.word, r.entry.val.definition)
               ELSE cache,
     hit |-> FALSE, panic |-> r.panic, reads |-> r.reads]

\* lookup after the cache probe missed
LookupMissed(cache, word) == LookupSearched(cache, LookupInBlocks(1, TargetWord(word), <<>>))

\* One whole call of lookup(word) on a reader whose cache is cache: what it
\* returns, the cache it leaves, whether the cache served it, its file reads
lookup(cache, word) ==
    IF word \in LruKeys(cache)
    THEN [result |-> Some([word |-> word, definition |-> LruValue(cache, word)]),
          cache |-> LruTouch(cache, word), hit |-> TRUE, panic |-> FALSE, reads |-> <<>>]
    ELSE LookupMissed(cache, word)

\* locate from the search on: cache.put of what was found, and the return
LocateSearched(cache, name, r) ==
    [result |-> r.data,
     cache |-> IF r.data.some THEN LruPut(cache, name, r.data.val) ELSE cache,
     hit |-> FALSE, panic |-> r.panic, reads |-> r.reads]

\* locate after the cache probe missed
LocateMissed(cache, name) == LocateSearched(cache, name, LocateInBlocks(1, name, <<>>))

\* locate once name is built
LocateNamed(cache, name) ==
    IF name \in LruKeys(cache)
    THEN [result |-> Some(LruValue(cache, name)),
          cache |-> LruTouch(cache, name), hit |-> TRUE, panic |-> FALSE, reads |-> <<>>]
    ELSE LocateMissed(cache, name)

\* One whole call of locate(resource_name)
locate(cache, resource_name) == LocateNamed(cache, ResourceName(resource_name))

(***************************************************************************)
(* The state machine: one reader, opened from one of the files, and the    *)
(* threads that call it.  A call that misses the cache takes two steps:    *)
(* the probe under the cache mutex, then the file search with the insert   *)
(* under the mutex; other threads may run in between.                      *)
(***************************************************************************)

Threads == {1, 2}

\* "b", "b-c", "p", "B", " b", "bc"
Words == {<<98>>, <<98, 45, 99>>, <<112>>, <<66>>, <<32, 98>>, <<98, 99>>}

\* The words looked up in big.mdx: "b", "p", and the first filler "z00"
BigWords == {<<98>>, <<112>>, Filler(0)}

\* The words looked up in the file at a path
WordsOf(path) == IF path = "big.mdx" THEN BigWords ELSE Words

\* "y", "/y", "z", "/z", "q"
Names == {<<121>>, <<47, 121>>, <<122>>, <<47, 122>>, <<113>>}

\* "", "B", "b-", "z"
Prefixes == {<<>>, <<66>>, <<98, 45>>, <<122>>}

NoCall == [op |-> "none"]

\* The local variables of a call before the loop over the key blocks
NoFrame == [block_idx |-> 0, fd |-> 0, found |-> None, data |-> <<>>, reads |-> <<>>]

Returned(op, a, r) ==
    [op |-> op, arg |-> a, result |-> r.result, hit |-> r.hit, panic |-> r.panic,
     reads |-> r.reads]

\* AppConfig::default(): the fields set_dictionary_path and init_dictionary use
AppConfig_default ==
    [dictionary_path |-> "", mdx_file |-> None, mdd_file |-> None, css_file |-> None]

\* The AppState that run() hands to manage()
AppState_new ==
    [config |-> AppConfig_default, dictionary |-> None, mdd |-> None, css_content |-> ""]

Mutexes == {"config", "dictionary", "mdd", "css_content"}

NoHandler == [cmd |-> "none", at |-> "idle"]

\* The reader new(file_path) constructs, for every file new accepts
Init ==
    /\ kind \in {"mdx", "mdd"}
    /\ file_path \in (IF kind = "mdx" THEN MdxPaths ELSE MddPaths)
    /\ file = FileBytes(file_path)
    /\ \E opened \in {new(file_path)} :
          /\ opened.ok
          /\ header = opened.val.header
          /\ key_block_infos = opened.val.key_block_infos
          /\ record_block_infos = opened.val.record_block_infos
    /\ key_cache = <<>>
    /\ resource_cache = <<>>
    /\ pc = [t \in Threads |-> "idle"]
    /\ arg = [t \in Threads |-> <<>>]
    /\ last = NoCall
    /\ mutex = 0
    /\ handles = {}
    /\ frame = [t \in Threads |-> NoFrame]
    /\ uses = <<>>
    /\ state = AppState_new
    /\ guards = [m \in Mutexes |-> 0]
    /\ handler = [t \in Threads |-> NoHandler]

\* The history after a hit on k or an insert of k that left the cache
\* with the keys cached
Used(history, k, cached) ==
    SelectSeq(<<k>> \o SelectSeq(history, LAMBDA x : x # k), LAMBDA x : x \in cached)

Reader == <<kind, file_path, file, header, key_block_infos, record_block_infos>>

\* The application around the reader
App == <<state, guards, handler>>

\* lookup(word) finds word in the cache and returns
LookupHit(t, word) ==
    /\ kind = "mdx" /\ pc[t] = "idle"
    /\ word \in LruKeys(key_cache)
    /\ \E r \in {lookup(key_cache, word)} :
          /\ key_cache' = r.cache
          /\ last' = Returned("lookup", word, r)
          /\ uses' = Used(uses, word, LruKeys(r.cache))
    /\ UNCHANGED <<App, Reader, mutex, handles, frame, resource_cache, pc, arg>>

\* lookup(word) does not find word in the cache and releases the mutex
LookupMiss(t, word) ==
    /\ kind = "mdx" /\ pc[t] = "idle"
    /\ word \notin LruKeys(key_cache)
    /\ pc' = [pc EXCEPT ![t] = "miss"]
    /\ arg' = [arg EXCEPT ![t] = word]
    /\ UNCHANGED <<App, Reader, mutex, handles, frame, uses, key_cache, resource_cache, last>>

\* lookup searches the file and, having found the word, caches it
LookupSearch(t) ==
    /\ kind = "mdx" /\ pc[t] = "miss"
    /\ \E r \in {LookupMissed(key_cache, arg[t])} :
          /\ key_cache' = r.cache
          /\ last' = Returned("lookup", arg[t], r)
          /\ uses' = IF r.result.some
                     THEN Used(uses, r.result.val.word, LruKeys(r.cache))
                     ELSE uses
    /\ pc' = [pc EXCEPT ![t] = "idle"]
    /\ arg' = [arg EXCEPT ![t] = <<>>]
    /\ UNCHANGED <<App, Reader, mutex, handles, frame, resource_cache>>

\* locate(resource_name) finds the name in the cache and returns
LocateHit(t, resource_name) ==
    /\ kind = "mdd" /\ pc[t] = "idle"
    /\ ResourceName(resource_name) \in LruKeys(resource_cache)
    /\ \E r \in {locate(resource_cache, resource_name)} :
          /\ resource_cache' = r.cache
          /\ last' = Returned("locate", resource_name, r)
          /\ uses' = Used(uses, ResourceName(resource_name), LruKeys(r.cache))
    /\ UNCHANGED <<App, Reader, mutex, handles, frame, key_cache, pc, arg>>

\* locate(resource_name) does not find the name in the cache and releases
\* the mutex
LocateMiss(t, resource_name) ==
    /\ kind = "mdd" /\ pc[t] = "idle"
    /\ ResourceName(resource_name) \notin LruKeys(resource_cache)
    /\ pc' = [pc EXCEPT ![t] = "miss"]
    /\ arg' = [arg EXCEPT ![t] = resource_name]
    /\ UNCHANGED <<App, Reader, mutex, handles, frame, uses, key_cache, resource_cache, last>>

\* locate searches the file and, having found the resource, caches it
LocateSearch(t) ==
    /\ kind = "mdd" /\ pc[t] = "miss"
    /\ \E r \in {LocateMissed(resource_cache, ResourceName(arg[t]))} :
          /\ resource_cache' = r.cache
          /\ last' = Returned("locate", arg[t], r)
          /\ uses' = IF r.result.some
                     THEN Used(uses, ResourceName(arg[t]), LruKeys(r.cache))
                     ELSE uses
    /\ pc' = [pc EXCEPT ![t] = "idle"]
    /\ arg' = [arg EXCEPT ![t] = <<>>]
    /\ UNCHANGED <<App, Reader, mutex, handles, frame, key_cache>>

\* prefix_search(prefix).  It reads the file and touches no cache, so it
\* commutes with every step of the other threads: it is taken here while
\* they are idle
PrefixSearch(prefix) ==
    /\ kind = "mdx" /\ \A t \in Threads : pc[t] = "idle"
    /\ \E r \in {prefix_search(prefix)} :
          last' = [op |-> "prefix_search", arg |-> prefix, result |-> r.results,
                   hit |-> FALSE, panic |-> r.panic, reads |-> r.reads]
    /\ UNCHANGED <<App, Reader, mutex, handles, frame, uses, key_cache, resource_cache, pc, arg>>

\* lookup(Filler(lo)), ..., lookup(Filler(hi)), one call after the other,
\* starting with the cache as given: what the last call returned.
\* FillersAfter goes on from what the call before returned.
RECURSIVE LookupFillers(_, _, _)
RECURSIVE FillersAfter(_, _, _)
FillersAfter(first, lo, hi) ==
    IF first.panic THEN first ELSE LookupFillers(first.cache, lo, hi)

LookupFillers(cache, lo, hi) ==
    IF lo = hi THEN lookup(cache, Filler(lo))
    ELSE FillersAfter(LookupFillers(cache, lo, (lo + hi) \div 2), (lo + hi) \div 2 + 1, hi)

\* One thread looks up every filler word in turn while the others are idle
LookupAllFillers ==
    /\ kind = "mdx" /\ \A t \in Threads : pc[t] = "idle"
    /\ \E r \in {LookupFillers(key_cache, 0, NumFillers - 1)} :
          /\ r.cache # key_cache
          /\ key_cache' = r.cache
          /\ last' = Returned("lookup", Filler(NumFillers - 1), r)
          /\ uses' = SelectSeq([i \in 1..NumFillers |-> Filler(NumFillers - i)]
                                 \o SelectSeq(uses, LAMBDA x : \A i \in 0..(NumFillers - 1) :
                                                                 x # Filler(i)),
                               LAMBDA x : x \in LruKeys(r.cache))
    /\ UNCHANGED <<App, Reader, mutex, handles, frame, resource_cache, pc, arg>>

Next ==
    \/ \E t \in Threads, word \in WordsOf(file_path) : LookupHit(t, word)
    \/ \E t \in Threads, word \in WordsOf(file_path) : LookupMiss(t, word)
    \/ \E t \in Threads : LookupSearch(t)
    \/ \E t \in Threads, resource_name \in Names : LocateHit(t, resource_name)
    \/ \E t \in Threads, resource_name \in Names : LocateMiss(t, resource_name)
    \/ \E t \in Threads : LocateSearch(t)
    \/ \E prefix \in Prefixes : PrefixSearch(prefix)
    \/ LookupAllFillers

Spec == Init /\ [][Next]_vars

(***************************************************************************)
(* The same calls, statement by statement.  Spec takes the probe of the    *)
(* cache in one step and the search of the file with the insert in         *)
(* another; StepSpec takes every lock(), File::open, seek and read_exact   *)
(* as a step of its own, so that the threads interleave between them.      *)
(* pc is "probe" (holding the guard of the probe), "scan" (at the head of  *)
(* the loop over key_block_infos), "key_open" and "key_seek" (in           *)
(* search_in_key_block, after File::open and after seek), "found" (before  *)
(* read_record), "rec_open" and "rec_seek" (in read_record), "insert"      *)
(* (before the lock() of the insert) and "put" (holding that guard).       *)
(***************************************************************************)

\* The call of this reader
Op == IF kind = "mdx" THEN "lookup" ELSE "locate"

\* The cache behind the mutex
Cache == IF kind = "mdx" THEN key_cache ELSE resource_cache

\* The key the probe looks for: word in lookup, name in locate
Probed(a) == IF kind = "mdx" THEN a ELSE ResourceName(a)

\* The key searched in the key blocks: target_word in lookup, name in locate
Target(a) == IF kind = "mdx" THEN TargetWord(a) ELSE ResourceName(a)

\* The cache of this reader becomes cache
SetCache(cache) ==
    /\ key_cache' = IF kind = "mdx" THEN cache ELSE key_cache
    /\ resource_cache' = IF kind = "mdd" THEN cache ELSE resource_cache

\* File::open: a handle of its own, at position 0, with the lowest
\* descriptor not in use
NewFd(open) == CHOOSE n \in 1..(Cardinality(open) + 1) : \A h \in open : h.fd # n

FileOpen(open) == open \cup {[fd |-> NewFd(open), pos |-> 0]}

\* file.seek(SeekFrom::Start(pos)) on the handle fd
Seek(open, fd, pos) == {IF h.fd = fd THEN [h EXCEPT !.pos = pos] ELSE h : h \in open}

\* The position of the handle fd
PosOf(open, fd) == (CHOOSE h \in open : h.fd = fd).pos

\* The handle fd goes out of scope
Drop(open, fd) == {h \in open : h.fd # fd}

\* ProbeScopeEnd with the bug of keeping the guard of the probe for the
\* rest of the call
ProbeScopeKept(t) == t

\* The mutex after the block of the probe, where its guard goes out of scope
ProbeScopeEnd(t) == 0

\* decompress of this reader
Decompressed(compressed) ==
    IF kind = "mdx" THEN MdxDecompressed(compressed) ELSE MddDecompressed(compressed)

\* Where read_record seeks for record block r
RecordDataStart(r) == IF kind = "mdx" THEN MdxRecordDataStart(r) ELSE MddRecordDataStart(r)

\* read_record after decompress
RecordSlice(decompressed, start, size) ==
    IF kind = "mdx" THEN MdxRecordSlice(decompressed, start, size)
    ELSE MddRecordSlice(decompressed, start, size)

\* The call of thread t returns result
Return(t, result, hit, panic) ==
    /\ last' = [op |-> Op, arg |-> arg[t], result |-> result, hit |-> hit, panic |-> panic,
                reads |-> frame[t].reads]
    /\ pc' = [pc EXCEPT ![t] = "idle"]
    /\ arg' = [arg EXCEPT ![t] = <<>>]
    /\ frame' = [frame EXCEPT ![t] = NoFrame]

\* The loop over key_block_infos goes on to the next block
NextBlock(t) ==
    /\ pc' = [pc EXCEPT ![t] = "scan"]
    /\ frame' = [frame EXCEPT ![t] = [@ EXCEPT !.block_idx = @ + 1, !.fd = 0, !.found = None]]
    /\ UNCHANGED <<arg, last>>

\* self.key_cache.lock() / self.resource_cache.lock() of the probe
ProbeLock(t, a) ==
    /\ pc[t] = "idle" /\ mutex = 0
    /\ mutex' = t
    /\ pc' = [pc EXCEPT ![t] = "probe"]
    /\ arg' = [arg EXCEPT ![t] = a]
    /\ UNCHANGED <<App, Reader, uses, key_cache, resource_cache, last, handles, frame>>

\* cache.get finds the key: the call returns and its guard is dropped
ProbeHit(t) ==
    /\ pc[t] = "probe" /\ Probed(arg[t]) \in LruKeys(Cache)
    /\ SetCache(LruTouch(Cache, Probed(arg[t])))
    /\ uses' = Used(uses, Probed(arg[t]), LruKeys(Cache))
    /\ Return(t, Some(IF kind = "mdx"
                      THEN [word |-> arg[t], definition |-> LruValue(Cache, arg[t])]
                      ELSE LruValue(Cache, Probed(arg[t]))), TRUE, FALSE)
    /\ mutex' = 0
    /\ UNCHANGED <<App, Reader, handles>>

\* cache.get finds nothing: the block of the probe ends
ProbeMiss(t) ==
    /\ pc[t] = "probe" /\ Probed(arg[t]) \notin LruKeys(Cache)
    /\ mutex' = ProbeScopeEnd(t)
    /\ pc' = [pc EXCEPT ![t] = "scan"]
    /\ frame' = [frame EXCEPT ![t] = [NoFrame EXCEPT !.block_idx = 1]]
    /\ UNCHANGED <<App, Reader, uses, key_cache, resource_cache, arg, last, handles>>

\* The loop over key_block_infos is over: None
ScanEnd(t) ==
    /\ pc[t] = "scan" /\ frame[t].block_idx > Len(key_block_infos)
    /\ Return(t, None, FALSE, FALSE)
    /\ UNCHANGED <<App, Reader, uses, key_cache, resource_cache, mutex, handles>>

\* lookup only: target_word is outside first_key..last_key of the block
InRange(t) ==
    \/ kind = "mdd"
    \/ /\ StrLeq(key_block_infos[frame[t].block_idx].first_key, Target(arg[t]))
       /\ StrLeq(Target(arg[t]), key_block_infos[frame[t].block_idx].last_key)

ScanSkip(t) ==
    /\ pc[t] = "scan" /\ frame[t].block_idx <= Len(key_block_infos)
    /\ ~InRange(t)
    /\ NextBlock(t)
    /\ UNCHANGED <<App, Reader, uses, key_cache, resource_cache, mutex, handles>>

\* search_in_key_block: File::open(&self.file_path)
KeyOpen(t) ==
    /\ pc[t] = "scan" /\ frame[t].block_idx <= Len(key_block_infos)
    /\ InRange(t)
    /\ handles' = FileOpen(handles)
    /\ frame' = [frame EXCEPT ![t].fd = NewFd(handles)]
    /\ pc' = [pc EXCEPT ![t] = "key_open"]
    /\ UNCHANGED <<App, Reader, uses, key_cache, resource_cache, arg, last, mutex>>

\* search_in_key_block: file.seek(SeekFrom::Start(key_data_offset))
KeySeek(t) ==
    /\ pc[t] = "key_open"
    /\ handles' = Seek(handles, frame[t].fd, KeyDataOffset(frame[t].block_idx))
    /\ pc' = [pc EXCEPT ![t] = "key_seek"]
    /\ UNCHANGED <<App, Reader, uses, key_cache, resource_cache, arg, last, mutex, frame>>

\* The read of compressed_size bytes at the position of the handle
ReadAt(t, compressed_size) ==
    [pos |-> PosOf(handles, frame[t].fd), len |-> compressed_size]

\* search_in_key_block from read_exact on, and what the loop of the call
\* does with its result
KeySearched(t, read, found) ==
    IF found.panic
    THEN /\ last' = [op |-> Op, arg |-> arg[t], result |-> None, hit |-> FALSE,
                     panic |-> TRUE, reads |-> Append(frame[t].reads, read)]
         /\ pc' = [pc EXCEPT ![t] = "idle"]
         /\ arg' = [arg EXCEPT ![t] = <<>>]
         /\ frame' = [frame EXCEPT ![t] = NoFrame]
    ELSE IF found.ok /\ found.val.some
    THEN /\ pc' = [pc EXCEPT ![t] = "found"]
         /\ frame' = [frame EXCEPT ![t] =
                        [@ EXCEPT !.fd = 0, !.found = found.val, !.reads = Append(@, read)]]
         /\ UNCHANGED <<arg, last>>
    ELSE /\ pc' = [pc EXCEPT ![t] = "scan"]
         /\ frame' = [frame EXCEPT ![t] =
                        [@ EXCEPT !.block_idx = @ + 1, !.fd = 0, !.reads = Append(@, read)]]
         /\ UNCHANGED <<arg, last>>

KeyRead(t) ==
    /\ pc[t] = "key_seek"
    /\ \E read \in {ReadAt(t, key_block_infos[frame[t].block_idx].compressed_size)} :
          KeySearched(t, read,
                      SearchDecompressed(Decompressed(ReadExact(file, read.pos, read.len)),
                                         key_block_infos[frame[t].block_idx].num_entries,
                                         Target(arg[t])))
    /\ handles' = Drop(handles, frame[t].fd)
    /\ UNCHANGED <<App, Reader, uses, key_cache, resource_cache, mutex>>

\* read_record: File::open(&self.file_path)
RecordOpen(t) ==
    /\ pc[t] = "found"
    /\ handles' = FileOpen(handles)
    /\ frame' = [frame EXCEPT ![t].fd = NewFd(handles)]
    /\ pc' = [pc EXCEPT ![t] = "rec_open"]
    /\ UNCHANGED <<App, Reader, uses, key_cache, resource_cache, arg, last, mutex>>

\* read_record: the loop to the record block of the offset and the seek
\* to it; Err when no block holds the offset
RecordSought(t, r) ==
    IF r = 0
    THEN /\ handles' = Drop(handles, frame[t].fd)
         /\ NextBlock(t)
    ELSE /\ handles' = Seek(handles, frame[t].fd, RecordDataStart(r))
         /\ pc' = [pc EXCEPT ![t] = "rec_seek"]
         /\ UNCHANGED <<arg, last, frame>>

RecordSeek(t) ==
    /\ pc[t] = "rec_open"
    /\ RecordSought(t, FindRecordBlock(1, 0, frame[t].found.val.offset))
    /\ UNCHANGED <<App, Reader, uses, key_cache, resource_cache, mutex>>

\* read_record from read_exact on, and what the loop of the call does with
\* its result
RecordTaken(t, read, data) ==
    IF data.panic
    THEN /\ last' = [op |-> Op, arg |-> arg[t], result |-> None, hit |-> FALSE,
                     panic |-> TRUE, reads |-> Append(frame[t].reads, read)]
         /\ pc' = [pc EXCEPT ![t] = "idle"]
         /\ arg' = [arg EXCEPT ![t] = <<>>]
         /\ frame' = [frame EXCEPT ![t] = NoFrame]
    ELSE IF data.ok
    THEN /\ pc' = [pc EXCEPT ![t] = "insert"]
         /\ frame' = [frame EXCEPT ![t] =
                        [@ EXCEPT !.fd = 0, !.data = data.val, !.reads = Append(@, read)]]
         /\ UNCHANGED <<arg, last>>
    ELSE /\ pc' = [pc EXCEPT ![t] = "scan"]
         /\ frame' = [frame EXCEPT ![t] =
                        [@ EXCEPT !.block_idx = @ + 1, !.fd = 0, !.found = None,
                                  !.reads = Append(@, read)]]
         /\ UNCHANGED <<arg, last>>

RecordReadIn(t, r, read) ==
    RecordTaken(t, read,
                RecordSlice(Decompressed(ReadExact(file, read.pos, read.len)),
                            frame[t].found.val.offset - LogicalStart(r),
                            frame[t].found.val.size))

RecordRead(t) ==
    /\ pc[t] = "rec_seek"
    /\ \E r \in {FindRecordBlock(1, 0, frame[t].found.val.offset)} :
          RecordReadIn(t, r, ReadAt(t, record_block_infos[r].compressed_size))
    /\ handles' = Drop(handles, frame[t].fd)
    /\ UNCHANGED <<App, Reader, uses, key_cache, resource_cache, mutex>>

\* self.key_cache.lock() / self.resource_cache.lock() of the insert
InsertLock(t) ==
    /\ pc[t] = "insert" /\ mutex = 0
    /\ mutex' = t
    /\ pc' = [pc EXCEPT ![t] = "put"]
    /\ UNCHANGED <<App, Reader, uses, key_cache, resource_cache, arg, last, handles, frame>>

\* cache.put, and the return, where the guard is dropped
InsertPut(t) ==
    /\ pc[t] = "put"
    /\ \E k \in {IF kind = "mdx" THEN frame[t].found.val.word ELSE Probed(arg[t])} :
       \E cache \in {LruPut(Cache, k, frame[t].data)} :
          /\ SetCache(cache)
          /\ uses' = Used(uses, k, LruKeys(cache))
    /\ Return(t, Some(IF kind = "mdx"
                      THEN [word |-> frame[t].found.val.word, definition |-> frame[t].data]
                      ELSE frame[t].data), FALSE, FALSE)
    /\ mutex' = 0
    /\ UNCHANGED <<App, Reader, handles>>

\* "p", "b-c", "bc"
StepWords == {<<112>>, <<98, 45, 99>>, <<98, 99>>}

\* "y", "/y", "q"
StepNames == {<<121>>, <<47, 121>>, <<113>>}

StepNext ==
    \/ \E t \in Threads, a \in (IF kind = "mdx" THEN StepWords ELSE StepNames) : ProbeLock(t, a)
    \/ \E t \in Threads : ProbeHit(t)
    \/ \E t \in Threads : ProbeMiss(t)
    \/ \E t \in Threads : ScanEnd(t)
    \/ \E t \in Threads : ScanSkip(t)
    \/ \E t \in Threads : KeyOpen(t)
    \/ \E t \in Threads : KeySeek(t)
    \/ \E t \in Threads : KeyRead(t)
    \/ \E t \in Threads : RecordOpen(t)
    \/ \E t \in Threads : RecordSeek(t)
    \/ \E t \in Threads : RecordRead(t)
    \/ \E t \in Threads : InsertLock(t)
    \/ \E t \in Threads : InsertPut(t)

StepSpec == Init /\ [][StepNext]_vars

(***************************************************************************)
(* The application, main.rs: the command handlers over AppState.  Each     *)
(* field of AppState is behind its own Mutex; a handler step that needs    *)
(* a Mutex another thread holds waits.  A step that locks, uses and        *)
(* unlocks one Mutex without asking for another is one action.  A reader   *)
(* held in AppState is written as its file_path: its other fields are      *)
(* those new(file_path) gave it.                                           *)
(***************************************************************************)

\* The directories the user selects; none exists at "gone"
Dirs == {"a", "b", "c", "d", "gone"}

\* std::fs::read_dir(path): the entry with each extension, if there is one
read_dir(path) ==
    CASE path = "a" -> Ok([mdx |-> Some("plain.mdx"), mdd |-> Some("res.mdd"), css |-> Some("a.css")])
      [] path = "b" -> Ok([mdx |-> Some("lzo.mdx"), mdd |-> Some("empty.mdd"), css |-> None])
      [] path = "c" -> Ok([mdx |-> None, mdd |-> None, css |-> None])
      [] path = "d" -> Ok([mdx |-> Some("empty.mdx"), mdd |-> None, css |-> None])
      [] OTHER -> Err

\* The field after the loop over the entries: Some(path) of the entry found,
\* left as it was when the directory has none
Detected(found, field) == IF found.some THEN found ELSE field

\* AppConfig::update_dictionary_path
update_dictionary_path(config, path) ==
    LET entries == read_dir(path)
    IN  IF ~entries.ok THEN [config EXCEPT !.dictionary_path = path]
        ELSE [dictionary_path |-> path,
              mdx_file |-> Detected(entries.val.mdx, config.mdx_file),
              mdd_file |-> Detected(entries.val.mdd, config.mdd_file),
              css_file |-> Detected(entries.val.css, config.css_file)]

\* The variables of the reader's calls, which the handlers' steps leave alone
Calls == <<key_cache, resource_cache, pc, arg, mutex, handles, frame, uses>>

Goto(t, at) == handler' = [handler EXCEPT ![t].at = at]

\* A handler returns
HandlerReturn(t, result) ==
    /\ handler' = [handler EXCEPT ![t] = NoHandler]
    /\ last' = [op |-> handler[t].cmd, arg |-> handler[t].arg, result |-> result]

\* set_dictionary_path up to drop(config): lock config, update, save
SetDictionaryPath(t, path, saved) ==
    /\ handler[t] = NoHandler
    /\ guards.config = 0
    /\ state' = [state EXCEPT !.config = update_dictionary_path(state.config, path)]
    /\ IF saved
       THEN /\ handler' = [handler EXCEPT ![t] =
                               [cmd |-> "set_dictionary_path", at |-> "init", arg |-> path]]
            /\ UNCHANGED last
       ELSE /\ last' = [op |-> "set_dictionary_path", arg |-> path, result |-> Err]
            /\ UNCHANGED handler
    /\ UNCHANGED <<guards, Reader, Calls>>

\* init_dictionary: let config = state.config.lock().unwrap()
InitLockConfig(t) ==
    /\ handler[t].at = "init"
    /\ guards.config = 0
    /\ guards' = [guards EXCEPT !.config = t]
    /\ Goto(t, "init_mdx")
    /\ UNCHANGED <<state, last, Reader, Calls>>

\* init_dictionary returns and drops config: set_dictionary_path returns
\* its result, lookup_word and search_words ignore it and go on
InitReturn(t, result) ==
    /\ guards' = [guards EXCEPT !.config = 0]
    /\ IF handler[t].cmd = "set_dictionary_path"
       THEN HandlerReturn(t, result)
       ELSE Goto(t, "use") /\ UNCHANGED last

\* init_dictionary: the .mdx file
InitMdx(t) ==
    /\ handler[t].at = "init_mdx"
    /\ IF ~state.config.mdx_file.some
       THEN InitReturn(t, Ok(<<>>)) /\ UNCHANGED state
       ELSE \E dict \in {new(state.config.mdx_file.val)} :
               IF ~dict.ok
               THEN InitReturn(t, Err) /\ UNCHANGED state
               ELSE /\ guards.dictionary = 0
                    /\ state' = [state EXCEPT !.dictionary = Some(dict.val.file_path)]
                    /\ Goto(t, "init_mdd")
                    /\ UNCHANGED <<guards, last>>
    /\ UNCHANGED <<Reader, Calls>>

\* init_dictionary: the .mdd file
InitMdd(t) ==
    /\ handler[t].at = "init_mdd"
    /\ IF ~state.config.mdd_file.some
       THEN UNCHANGED state
       ELSE \E mdd \in {new(state.config.mdd_file.val)} :
               IF ~mdd.ok
               THEN UNCHANGED state
               ELSE /\ guards.mdd = 0
                    /\ state' = [state EXCEPT !.mdd = Some(mdd.val.file_path)]
    /\ Goto(t, "init_css")
    /\ UNCHANGED <<guards, last, Reader, Calls>>

\* init_dictionary: the .css file, and Ok(())
InitCss(t) ==
    /\ handler[t].at = "init_css"
    /\ IF ~state.config.css_file.some
       THEN UNCHANGED state
       ELSE /\ guards.css_content = 0
            /\ state' = [state EXCEPT !.css_content = state.config.css_file.val]
    /\ InitReturn(t, Ok(<<>>))
    /\ UNCHANGED <<Reader, Calls>>

\* lookup_word and search_words: if state.dictionary.lock().unwrap().is_none()
\* found: whether the dictionary holds the word
EnsureLoaded(t, cmd, found) ==
    /\ handler[t] = NoHandler
    /\ guards.dictionary = 0
    /\ handler' = [handler EXCEPT ![t] =
                       [cmd |-> cmd, at |-> IF state.dictionary.some THEN "use" ELSE "init",
                        arg |-> found]]
    /\ UNCHANGED <<state, guards, last, Reader, Calls>>

\* lookup_word and search_words: if let Some(ref dict) =
\* *state.dictionary.lock().unwrap() { .. }, the guard living to the end of
\* the if let
UseDictionary(t) ==
    /\ handler[t].at = "use"
    /\ guards.dictionary = 0
    /\ IF state.dictionary.some /\ handler[t].cmd = "lookup_word" /\ handler[t].arg
       THEN /\ guards' = [guards EXCEPT !.dictionary = t]
            /\ Goto(t, "format")
            /\ UNCHANGED last
       ELSE /\ HandlerReturn(t, state.dictionary)
            /\ UNCHANGED guards
    /\ UNCHANGED <<state, Reader, Calls>>

\* format_definition: let config = state.config.lock().unwrap()
FormatLockConfig(t) ==
    /\ handler[t].at = "format"
    /\ guards.config = 0
    /\ guards' = [guards EXCEPT !.config = t]
    /\ Goto(t, "format_css")
    /\ UNCHANGED <<state, last, Reader, Calls>>

\* format_definition: let css = state.css_content.lock().unwrap(), the
\* rest of it, and lookup_word's return
FormatLockCss(t) ==
    /\ handler[t].at = "format_css"
    /\ guards.css_content = 0
    /\ guards' = [guards EXCEPT !.config = 0, !.dictionary = 0]
    /\ HandlerReturn(t, state.dictionary)
    /\ UNCHANGED <<state, Reader, Calls>>

\* get_mdd_resource
GetMddResource(t) ==
    /\ handler[t] = NoHandler
    /\ guards.mdd = 0
    /\ last' = [op |-> "get_mdd_resource", arg |-> <<>>, result |-> state.mdd]
    /\ UNCHANGED <<state, guards, handler, Reader, Calls>>

AppNext ==
    \/ \E t \in Threads, path \in Dirs, saved \in BOOLEAN : SetDictionaryPath(t, path, saved)
    \/ \E t \in Threads : InitLockConfig(t)
    \/ \E t \in Threads : InitMdx(t)
    \/ \E t \in Threads : InitMdd(t)
    \/ \E t \in Threads : InitCss(t)
    \/ \E t \in Threads, found \in BOOLEAN : EnsureLoaded(t, "lookup_word", found)
    \/ \E t \in Threads : EnsureLoaded(t, "search_words", FALSE)
    \/ \E t \in Threads : UseDictionary(t)
    \/ \E t \in Threads : FormatLockConfig(t)
    \/ \E t \in Threads : FormatLockCss(t)
    \/ \E t \in Threads : GetMddResource(t)

\* The application starts with no reader loaded; the reader variables stay
\* those of one file
AppInit == Init /\ file_path = "plain.mdx"

AppSpec == AppInit /\ [][AppNext]_vars

(***************************************************************************)
(* What the file holds, for the statements below: its key entries in file  *)
(* order and the record address space (the record blocks' data, one after  *)
(* the other)                                                              *)
(***************************************************************************)

StoredEntries ==
    LET d == FileDesc(file_path)
    IN  Flatten([i \in 1..Len(d.key_blocks) |-> d.key_blocks[i].entries])

RecordSpace ==
    LET d == FileDesc(file_path)
    IN  Flatten([i \in 1..Len(d.record_blocks) |-> d.record_blocks[i].data])

\* Every record block of the file decompresses
CleanRecords ==
    \A i \in 1..Len(FileDesc(file_path).record_blocks) :
        FileDesc(file_path).record_blocks[i].flip = 0

\* The key a call asks for, as the reader is to compare it
AskedKey == IF last.op = "locate" THEN ResourceName(last.arg) ELSE last.arg

\* The payload of a reader: text for lookup, bytes for locate
Payload(bytes) == IF last.op = "locate" THEN bytes ELSE FromUtf8Lossy(bytes)

\* What a call returned as payload
ReturnedPayload == IF last.op = "locate" THEN last.result.val ELSE last.result.val.definition

IsAlphanumeric(c) == (c >= 48 /\ c <= 57) \/ (c >= 65 /\ c <= 90) \/ (c >= 97 /\ c <= 122)

\* Stripping as the header descriptor defines it: whitespace and
\* non-alphanumerics removed
Strip(s) == SelectSeq(s, IsAlphanumeric)

\* The normalized form of a key or query under the header's rules
Normalized(s) ==
    LET stripped == IF header.strip_key THEN Strip(s) ELSE s
    IN  IF header.key_case_sensitive THEN stripped ELSE ToLowercase(stripped)

\* C1: whenever lookup or locate returns for a key k that is followed by
\* another entry in the file (records decompressing), it returns the record
\* bytes from k's own logical offset up to the next entry's logical offset.
C1_OwnRecord ==
    (last.op \in {"lookup", "locate"} /\ CleanRecords) =>
        \A i \in 1..(Len(StoredEntries) - 1) :
            StoredEntries[i].key = AskedKey =>
                /\ last.result.some
                /\ ReturnedPayload = Payload(SubSeq(RecordSpace, StoredEntries[i].offset + 1,
                                                    StoredEntries[i + 1].offset))

\* The key blocks (by index in the file's description) holding a key whose
\* normalized form is that of word
BlocksHolding(word) ==
    LET d == FileDesc(file_path)
    IN  {b \in 1..Len(d.key_blocks) :
            \E j \in 1..Len(d.key_blocks[b].entries) :
                Normalized(d.key_blocks[b].entries[j].key) = Normalized(word)}

\* The record block (by index in the description) holding a logical offset
RECURSIVE BlockOfOffset(_, _, _)
BlockOfOffset(i, start, offset) ==
    LET d == FileDesc(file_path)
    IN  IF i > Len(d.record_blocks) THEN 0
        ELSE IF offset < start + Len(d.record_blocks[i].data) THEN i
        ELSE BlockOfOffset(i + 1, start + Len(d.record_blocks[i].data), offset)

\* word is a normalized key of exactly one key block and the record block of
\* that key decompresses cleanly
FoundBySpec(word) ==
    /\ Cardinality(BlocksHolding(word)) = 1
    /\ \E i \in 1..Len(StoredEntries) :
          /\ Normalized(StoredEntries[i].key) = Normalized(word)
          /\ LET r == BlockOfOffset(1, 0, StoredEntries[i].offset)
             IN  r # 0 /\ FileDesc(file_path).record_blocks[r].flip = 0

\* C2: lookup(w) returns Some exactly when the normalized form of w is a
\* normalized key of exactly one key block whose record block decompresses
\* cleanly.
C2_SomeIffKey ==
    last.op = "lookup" => (last.result.some <=> FoundBySpec(last.arg))

\* C3: with key_case_sensitive = false, a query that equals a stored key up
\* to ASCII case is found, whatever strip_key is, and the stored key is the
\* canonical word returned.
C3_CaseFolded ==
    (last.op = "lookup" /\ ~header.key_case_sensitive /\ CleanRecords) =>
        \A i \in 1..Len(StoredEntries) :
            ToLowercase(StoredEntries[i].key) = ToLowercase(last.arg) =>
                last.result.some /\ last.result.val.word = StoredEntries[i].key

\* C4: with strip_key = true, a query that equals a stored key after
\* whitespace and non-alphanumerics are removed from both is found, and the
\* canonical word returned is the stored key unstripped.
C4_Stripped ==
    (last.op = "lookup" /\ header.strip_key /\ CleanRecords) =>
        \A i \in 1..Len(StoredEntries) :
            Strip(StoredEntries[i].key) = Strip(last.arg) =>
                last.result.some /\ last.result.val.word = StoredEntries[i].key

\* C5: for every name n without a leading '/', in every cache state,
\* locate(n) and locate("/" + n) return the same result, make the same file
\* reads and leave the same cache.
C5_SlashOptional ==
    kind = "mdd" =>
        \A n \in Names :
            (n = <<>> \/ Head(n) # 47) =>
                locate(resource_cache, n) = locate(resource_cache, <<47>> \o n)

\* locate("y") has just been served from the cache, which holds "/y"
C5_Witness ==
    /\ kind = "mdd" /\ last.op = "locate" /\ last.arg = <<121>>
    /\ last.hit /\ last.result.some
    /\ <<47, 121>> \in LruKeys(resource_cache)

\* C6: after a lookup(w) or locate(n) that returned a value, the same call
\* made next on the same reader is served from the cache, without a file
\* read.
C6_SecondCallHits ==
    /\ (last.op = "lookup" /\ last.result.some) =>
          (lookup(key_cache, last.arg).hit /\ lookup(key_cache, last.arg).reads = <<>>)
    /\ (last.op = "locate" /\ last.result.some) =>
          (locate(resource_cache, last.arg).hit /\ locate(resource_cache, last.arg).reads = <<>>)

\* C7: neither cache ever holds more than CACHE_SIZE entries.
C7_CacheBounded ==
    Len(key_cache) <= CACHE_SIZE /\ Len(resource_cache) <= CACHE_SIZE

\* A lookup has inserted into the full cache: the cache is full and holds
\* "b" and "p" beside fillers
C7_Witness ==
    /\ Len(key_cache) = CACHE_SIZE
    /\ {<<98>>, <<112>>} \subseteq LruKeys(key_cache)
    /\ last.op = "lookup" /\ ~last.hit /\ last.result.some

\* C8: every lookup(w) returns what lookup(w) returns on the reader as
\* opened (empty cache), so any two calls with the same w return the same
\* definition whatever the cache held.
C8_SameDefinition ==
    last.op = "lookup" => last.result = lookup(<<>>, last.arg).result

\* A lookup served from the full cache, after the fillers went through it
C8_Witness ==
    /\ last.op = "lookup" /\ last.hit /\ last.arg \in Words
    /\ last.result.val.definition # <<>>
    /\ Len(key_cache) = CACHE_SIZE

\* C9: when lookup(w) has returned Some(e), lookup(e.word) returns Some with
\* the canonical word e.word, with the cache as it is and with an empty
\* cache, under every header setting.
C9_Idempotent ==
    (last.op = "lookup" /\ last.result.some) =>
        LET e == last.result.val
            again == lookup(key_cache, e.word).result
            cold == lookup(<<>>, e.word).result
        IN  /\ again.some /\ again.val.word = e.word
            /\ cold.some /\ cold.val.word = e.word

\* A lookup resolved a query to a canonical word that differs from it
C9_Witness ==
    /\ last.op = "lookup" /\ last.result.some
    /\ last.result.val.word # last.arg

\* C10: every key prefix_search(p) returns begins, case-folded, with the
\* case-folded p.
C10_PrefixOnly ==
    last.op = "prefix_search" =>
        \A i \in 1..Len(last.result) :
            StartsWith(ToLowercase(last.result[i]), ToLowercase(last.arg))

\* prefix_search("B") returned "b" and "b-c"
C10_Witness ==
    /\ last.op = "prefix_search" /\ last.arg = <<66>>
    /\ Len(last.result) >= 2

\* The keys of the file that begin, case-folded, with the case-folded
\* prefix, in file order
MatchingKeys(prefix) ==
    LET keys == [i \in 1..Len(StoredEntries) |-> StoredEntries[i].key]
        HasPrefix(k) == StartsWith(ToLowercase(k), ToLowercase(prefix))
    IN  SelectSeq(keys, HasPrefix)

FlippedRecordReads ==
    { [pos |-> MdxRecordDataStart(r), len |-> record_block_infos[r].compressed_size] :
        r \in { q \in 1..Len(record_block_infos) : FileDesc(file_path).record_blocks[q].flip # 0 } }

\* C12: a lookup that reads a record block with one changed byte ends with
\* an error (CorruptBlock), the checksum of the block not matching its data.
C12_CorruptBlock ==
    (/\ last.op = "lookup"
     /\ \E i \in 1..Len(last.reads) : last.reads[i] \in FlippedRecordReads)
        => last.result = Err

\* A read of the call that came back with bytes the reader's decompress
\* does not accept, or did not come back
FailedRead(read) ==
    IF kind = "mdx"
    THEN ~MdxDecompressed(ReadExact(file, read.pos, read.len)).ok
    ELSE ~MddDecompressed(ReadExact(file, read.pos, read.len)).ok

\* C13: a lookup or locate one of whose key block or record block reads
\* failed returns something other than None, the not-found outcome.
C13_ErrorSurfaced ==
    (/\ last.op \in {"lookup", "locate"}
     /\ \E i \in 1..Len(last.reads) : FailedRead(last.reads[i]))
        => last.result # None

\* A read of the call that came back with a block whose compression type
\* the reader has no codec for (1 is LZO)
UnsupportedRead(read) ==
    /\ ReadExact(file, read.pos, read.len).ok
    /\ read.len >= 4
    /\ ReadExact(file, read.pos, read.len).val[4] \notin {0, 2}

\* C14: a lookup or locate one of whose key block or record block reads
\* failed, or met a compression type without a codec, leaves both caches as
\* they were before the call returned.
C14_NoPollution ==
    [][(/\ last'.op \in {"lookup", "locate"}
        /\ \E i \in 1..Len(last'.reads) :
              FailedRead(last'.reads[i]) \/ UnsupportedRead(last'.reads[i]))
          => (key_cache' = key_cache /\ resource_cache' = resource_cache)]_vars

\* A read of the call that came back with a block of compression type 1
LzoRead(read) ==
    /\ ReadExact(file, read.pos, read.len).ok
    /\ read.len >= 4
    /\ ReadExact(file, read.pos, read.len).val[4] = 1

\* C15: the decompressor fails on every block of compression type 1 (LZO)
\* that a lookup or locate hands to it; it never answers such a block with
\* a success carrying empty data.
C15_LzoRefused ==
    last.op \in {"lookup", "locate"} =>
        \A i \in 1..Len(last.reads) :
            LzoRead(last.reads[i]) =>
                IF kind = "mdx"
                THEN ~MdxDecompressed(ReadExact(file, last.reads[i].pos, last.reads[i].len)).ok
                ELSE ~MddDecompressed(ReadExact(file, last.reads[i].pos, last.reads[i].len)).ok

\* C16: no lookup on a file whose header declares an encryption (a
\* non-empty Encryption attribute) returns an entry.
C16_EncryptedRefused ==
    header.encryption # "" => ~(last.op = "lookup" /\ last.result.some)

\* The positions of a call between File::open and the end of read_exact
\* and decompress
InFile == {"key_open", "key_seek", "rec_open", "rec_seek"}

Evicted ==
    IF kind = "mdx" THEN LruKeys(key_cache) \ LruKeys(key_cache')
    ELSE LruKeys(resource_cache) \ LruKeys(resource_cache')

TaggedFirst(tag, data) ==
    <<tag, 0, 0, 0>> \o Adler32Bytes(data) \o (IF tag = 2 THEN ZlibStored(data) ELSE data)

\* C19: with a frame header (a v2.x file) the decompressor of the reader
\* takes the tag from byte 0 and the payload from byte 8 on: a block whose
\* first byte is 0 yields its payload, one whose first byte is 2 the
\* inflated payload.
C19_TagAtByteZero ==
    HeaderSize(header) > 0 =>
        \A data \in {<<101, 102, 103>>, <<7>>} : \A tag \in {0, 2} :
            IF kind = "mdx"
            THEN MdxDecompressed(Ok(TaggedFirst(tag, data))) = Ok(data)
            ELSE MddDecompressed(Ok(TaggedFirst(tag, data))) = Ok(data)

\* The first byte after the key-info section and the first byte after the
\* record-info section: where read_block_infos stands after reading each
KeyInfoEnd == ReadKeyIndex(file, header).cur

RecordInfoEnd == ReadRecordIndex(file, ReadKeyIndex(file, header)).cur

\* The read of key block i, and of record block r, at the offsets counted
\* from the end of their info sections
KeyBlockAfterInfo(i) ==
    [pos |-> KeyInfoEnd
             + SumTo([j \in 1..Len(key_block_infos) |-> key_block_infos[j].compressed_size], i - 1),
     len |-> key_block_infos[i].compressed_size]

RecordBlockAfterInfo(r) ==
    [pos |-> RecordInfoEnd
             + SumTo([j \in 1..Len(record_block_infos) |-> record_block_infos[j].compressed_size],
                     r - 1),
     len |-> record_block_infos[r].compressed_size]

\* C20: every block read of a call is the read of a key block at the first
\* byte after the key-info section plus the compressed sizes of the key
\* blocks before it, or of a record block at the first byte after the
\* record-info section plus the compressed sizes of the record blocks
\* before it.
C20_AbsoluteOffsets ==
    last.op # "none" =>
        \A k \in 1..Len(last.reads) :
            \/ \E i \in 1..Len(key_block_infos) : last.reads[k] = KeyBlockAfterInfo(i)
            \/ \E r \in 1..Len(record_block_infos) : last.reads[k] = RecordBlockAfterInfo(r)

\* Where read_block_infos starts to read key_block_info_compressed: after
\* the counters of the key section and what it skips among them
KeyInfoStart == KeyInfoEnd - Len(ReadKeyIndex(file, header).got[5])

\* C21: the four counters of the key section are read as 8 bytes each in a
\* v2.x file, with 8 + 4 bytes skipped before key_info_size, and as 4 bytes
\* each in a v1.x file: the key info starts 44, respectively 16, bytes
\* after data_offset.
C21_CounterWidths ==
    KeyInfoStart = header.data_offset + (IF header.version >= 20 THEN 4 * 8 + 8 + 4 ELSE 4 * 4)

\* The bytes of the record space from offset on, size of them or as many
\* as the record block holding offset still has
RecordBytes(r, offset, size) ==
    LET d == FileDesc(file_path)
        start == offset - SumTo([i \in 1..Len(d.record_blocks) |-> Len(d.record_blocks[i].data)],
                                r - 1)
        data == d.record_blocks[r].data
    IN  SubSeq(data, start + 1, IF start + size <= Len(data) THEN start + size ELSE Len(data))

\* What a record read may answer for offset and size: an error when no
\* block holds offset, else the bytes (or an error of the block's read)
RightRecord(read, offset, size, text) ==
    /\ ~read.panic
    /\ IF BlockOfOffset(1, 0, offset) = 0 THEN ~read.ok
       ELSE read.ok =>
              read.val = IF text
                         THEN FromUtf8Lossy(RecordBytes(BlockOfOffset(1, 0, offset), offset, size))
                         ELSE RecordBytes(BlockOfOffset(1, 0, offset), offset, size)

\* C22: a record read of (offset, size) answers with the bytes of the one
\* record block holding offset, from offset on, size of them or as many as
\* the block still has, and with an error when offset is at or beyond the
\* end of the record space; the text reader and the resource reader take
\* the same bytes.
C22_RecordRange ==
    \A offset \in 0..(Len(RecordSpace) + 1) : \A size \in 0..3 :
        /\ RightRecord(MdxDictionary_read_record(offset, size), offset, size, TRUE)
        /\ RightRecord(MddResource_read_record(offset, size), offset, size, FALSE)

\* The key blocks the call that returned last has read
KeyBlocksRead ==
    {i \in 1..Len(key_block_infos) :
        \E k \in 1..Len(last.reads) : last.reads[k] = KeyBlockRead(i)[1]}

\* The key the call that returned last searched for in the key blocks
Searched == IF last.op = "locate" THEN ResourceName(last.arg) ELSE TargetWord(last.arg)

\* C23: a lookup or locate reads at most one key block, and only a block
\* whose range first_key..last_key holds the key searched for; when no
\* range holds it, no key block is read.
C23_OneKeyBlock ==
    last.op \in {"lookup", "locate"} =>
        /\ Cardinality(KeyBlocksRead) <= 1
        /\ \A i \in KeyBlocksRead :
              /\ StrLeq(key_block_infos[i].first_key, Searched)
              /\ StrLeq(Searched, key_block_infos[i].last_key)

\* The range of key block i could hold a key that begins with prefix
CouldHold(i, prefix) ==
    /\ StrLeq(prefix, key_block_infos[i].last_key)
    /\ StrLeq(key_block_infos[i].first_key, prefix \o <<255>>)
    /\ key_block_infos[i].first_key # prefix \o <<255>>

\* C24: prefix_search(p) reads only key blocks whose range first_key..
\* last_key could hold a key that begins with p (as given or case-folded).
C24_MatchingBlocksOnly ==
    last.op = "prefix_search" =>
        \A i \in KeyBlocksRead :
            CouldHold(i, last.arg) \/ CouldHold(i, ToLowercase(last.arg))

\* C25 as stated: the filter of the text reader's record read lets no block
\* through, so every record block is read at the position of the first.
C25_FilterNeverFires ==
    \A r \in 1..Len(record_block_infos) :
        /\ TakeWhileSum(1, r) = 0
        /\ MdxRecordDataStart(r) = MdxRecordDataStart(1)

\* The read of record block r right after the key blocks and the record
\* blocks before r
RecordBlockInTurn(r) ==
    [pos |-> header.data_offset + KeyBlocksSize
             + SumTo([j \in 1..Len(record_block_infos) |-> record_block_infos[j].compressed_size],
                     r - 1),
     len |-> record_block_infos[r].compressed_size]

\* C25: the filter of the text reader's record read lets through exactly
\* the record blocks before the target, so it adds the sum of their
\* compressed sizes: record block r is read after the r - 1 blocks before
\* it, where the resource reader reads it too, and every read of a lookup
\* is that of a key block or of a record block at that position.
C25_FilterSumsBefore ==
    /\ \A r \in 1..Len(record_block_infos) :
          /\ TakeWhileSum(1, r)
               = SumTo([j \in 1..Len(record_block_infos) |-> record_block_infos[j].compressed_size],
                       r - 1)
          /\ MdxRecordDataStart(r) = MddRecordDataStart(r)
    /\ last.op = "lookup" =>
          \A k \in 1..Len(last.reads) :
              \/ \E i \in 1..Len(key_block_infos) : last.reads[k] = KeyBlockRead(i)[1]
              \/ \E r \in 1..Len(record_block_infos) :
                    /\ last.reads[k] = RecordBlockInTurn(r)
                    /\ last.reads[k] = RecordReadAt(r, MdxRecordDataStart(r))[1]

\* A lookup has read the second record block, past the first
C25_Witness ==
    /\ last.op = "lookup" /\ last.result.some
    /\ Len(record_block_infos) >= 2
    /\ \E k \in 1..Len(last.reads) :
          /\ last.reads[k] = RecordBlockInTurn(2)
          /\ last.reads[k].pos > MdxRecordDataStart(1)

\* C26: no call of lookup, locate or prefix_search aborts the thread.
C26_NeverPanics ==
    last.op # "none" => ~last.panic

\* The Mutex the next step of thread t asks for, "" when it asks for none
Wanted(t) ==
    CASE handler[t].at \in {"init", "format"} -> "config"
      [] handler[t].at = "use" -> "dictionary"
      [] handler[t].at = "format_css" -> "css_content"
      [] handler[t].at = "init_mdx" ->
            IF state.config.mdx_file.some /\ new(state.config.mdx_file.val).ok
            THEN "dictionary" ELSE ""
      [] handler[t].at = "init_mdd" ->
            IF state.config.mdd_file.some /\ new(state.config.mdd_file.val).ok
            THEN "mdd" ELSE ""
      [] handler[t].at = "init_css" ->
            IF state.config.css_file.some THEN "css_content" ELSE ""
      [] OTHER -> ""

\* Thread t waits for a Mutex that thread u holds
WaitsFor(t, u) == Wanted(t) # "" /\ guards[Wanted(t)] = u

\* C27: no two handlers wait for each other: never does one hold
\* `dictionary` and ask for `config` while the other holds `config` and
\* asks for `dictionary`, and no handler asks for a Mutex it holds.
C27_NoDeadlock ==
    \A t, u \in Threads : ~(WaitsFor(t, u) /\ WaitsFor(u, t))

\* The reader a directory gives: that of its file with the extension, when
\* it has one that opens
ReaderOf(path, ext) ==
    LET entries == read_dir(path)
    IN  IF entries.ok /\ entries.val[ext].some /\ new(entries.val[ext].val).ok
        THEN entries.val[ext]
        ELSE None

\* C28: once set_dictionary_path(p) has returned Ok and no handler is
\* running, AppState holds the readers of p's .mdx and .mdd files, and none
\* where p has no such file or it did not open.
C28_ReadersOfPath ==
    (/\ last.op = "set_dictionary_path"
     /\ last.result.ok
     /\ \A t \in Threads : handler[t] = NoHandler)
        => /\ state.dictionary = ReaderOf(last.arg, "mdx")
           /\ state.mdd = ReaderOf(last.arg, "mdd")

====
